---- MODULE Spec2Model ----
(***************************************************************************)
(* PackedArray (libraries/lib-utility/PackedArray.h): a header contiguous  *)
(* with an array of a dynamically determined number of elements, owned by  *)
(* a unique_ptr whose deleter remembers the element count.                 *)
(*                                                                         *)
(* The model follows one managed type (its layout is fixed in Init) from   *)
(* the instantiation of Deleter<Type> (the static_asserts) through the     *)
(* operations on its Ptr handles.  Every heap block keeps the log of the   *)
(* calls made on it (operator new, constructor, destructors, deallocation).*)
(***************************************************************************)
EXTENDS Integers, Sequences, FiniteSets, TLC

\* ------------------------------------------------------------------ bounds
MaxBlocks == 2    \* new-expressions evaluated in one run
MaxCount  == 2    \* largest argument given to AllocateCount
MaxBytes  == 5    \* largest argument given to AllocateBytes

Handles      == {1, 2}   \* the Ptr objects the client code declares
HeaderSizes  == 1 .. 2   \* sizeof(header_type) of the managed types tried
ElementSizes == 1 .. 2   \* sizeof(element_type) of the managed types tried

\* size_t arithmetic is modular.  The width is reduced from 64 bits to one
\* TLC's integers hold; every size that is allocated is far below 2^SizeBits,
\* so only the wrap-around of Deleter(0) depends on it.
SizeBits == 6
SizeMod  == 2 ^ SizeBits

Null == 0

Max(a, b) == IF a >= b THEN a ELSE b        \* std::max

\* ------------------------------------------------------------------ layout
\* What the compiler knows of a managed type Type and of Traits<Type>:
\*   empty  std::is_empty_v<header_type>
\*   H      sizeof(header_type)   (1 for an empty type, never 0)
\*   E      sizeof(element_type); iterated_type has the same size
\*   off    offsetof(Overlay, elements)
\*   ovl    sizeof(Overlay)
\*   mt     sizeof(managed_type)

\* The primary template: no header, the element is Type itself.
DefaultTraits ==
  { [empty |-> TRUE, H |-> 1, E |-> e, off |-> 0, ovl |-> e, mt |-> e] :
      e \in ElementSizes }

\* An empty header and an element the empty base optimization cannot be
\* applied to: the element is placed after the base subobject.
EmptyNoEBO ==
  { [empty |-> TRUE, H |-> 1, E |-> e, off |-> 1, ovl |-> 1 + e, mt |-> 1 + e] :
      e \in ElementSizes }

\* Specializations with a real header: the array may sit right after the
\* header (off = H), after padding (off > H) or inside the header's tail
\* padding (off < H); the managed type may or may not have the overlay's size.
HeaderTraits ==
  { l \in [empty : {FALSE}, H : HeaderSizes, E : ElementSizes,
           off : 1 .. 3, ovl : 1 .. 5, mt : 1 .. 6] :
      /\ l.ovl = Max(l.off + l.E, l.H)
      /\ l.mt \in {l.ovl, l.ovl + 1} }

Layouts == DefaultTraits \cup EmptyNoEBO \cup HeaderTraits

VARIABLES
  layout,    \* the managed type under instantiation
  build,     \* "unchecked", "accepted" or "rejected" by the static_asserts
  handles,   \* Ptr objects: [alive, ptr, count], count being the deleter's mCount
  blocks,    \* heap blocks in allocation order: [size, armed, moved, state]
  obs        \* what the last operation did (its operands before it, its results)

vars == <<layout, build, handles, blocks, obs>>

\* ----------------------------------------------------- the static_asserts
\* static_assert(sizeof(Overlay) == sizeof(managed_type));
SizeAssert(l) == l.ovl = l.mt

\* static_assert(offsetof(Overlay, elements) ==
\*    std::is_empty_v<header_type> ? 0 : sizeof(header_type));
\* == binds tighter than ?: , so the asserted value is
\*    (offsetof(Overlay, elements) == is_empty_v) ? 0 : sizeof(header_type)
\* with the bool promoted to 0 or 1, and the assertion passes when that value
\* is not 0.
OffsetAssertValue(l) ==
  IF l.off = (IF l.empty THEN 1 ELSE 0) THEN 0 ELSE l.H

OffsetAssert(l) == OffsetAssertValue(l) # 0

\* Deleter<Type> can be instantiated only if both assertions pass.
StaticAsserts(l) == SizeAssert(l) /\ OffsetAssert(l)

\* ------------------------------------------------------------ the deleter
\* Deleter(size_t size = 0): mCount{ (size - sizeof(header_type)) / sizeof(element_type) }
DeleterCount(l, size) == ((size - l.H) % SizeMod) \div l.E

\* The calls made on a block, as they are logged.
EvNew      == [ev |-> "new",     i |-> 0]   \* ::operator new
EvCtor     == [ev |-> "ctor",    i |-> 0]   \* Type{ args... } completed
EvThrow    == [ev |-> "throw",   i |-> 0]   \* Type{ args... } threw
EvDelete   == [ev |-> "delete",  i |-> 0]   \* placement operator delete
EvElem(k)  == [ev |-> "~elem",   i |-> k]   \* elements[k].~element_type()
EvHeader   == [ev |-> "~header", i |-> 0]   \* pOverlay->~header_type()
EvFree     == [ev |-> "free",    i |-> 0]   \* BaseDeleter<Type>::operator()(p)

\* for (auto count = mCount; count--;) (--pE)->~element_type();
\* pE is the index the pointer stands at; it starts at elements + mCount.
RECURSIVE ElementLoop(_, _)
ElementLoop(count, pE) ==
  IF count = 0 THEN << >>
  ELSE <<EvElem(pE - 1)>> \o ElementLoop(count - 1, pE - 1)

\* The same destructors, by increasing subscript.
DestroyElementsAscending(mCount) == [k \in 1 .. mCount |-> EvElem(k - 1)]

DestroyElements(mCount) == ElementLoop(mCount, mCount)

\* The deleter without its test for null.
DeleterCallUnchecked(p, mCount) ==
  DestroyElements(mCount) \o <<EvHeader>> \o <<EvFree>>

\* Deleter::operator()(Type *p): the calls it makes, in order.
DeleterCall(p, mCount) ==
  IF p = Null THEN << >>
  ELSE DestroyElements(mCount) \o <<EvHeader>> \o <<EvFree>>

\* A block of the heap: the bytes obtained for it, the count its deleter was
\* constructed with, whether it has changed hands, and its state: "live" from
\* the constructor's return to the deallocation, then "freed"; "corrupt"
\* once freed memory has been handed to a deallocation function again.
Live(size, armed) ==
  [size |-> size, armed |-> armed, moved |-> FALSE, state |-> "live"]
Freed   == [size |-> 0, armed |-> 0, moved |-> FALSE, state |-> "freed"]
Corrupt == [size |-> 0, armed |-> 0, moved |-> FALSE, state |-> "corrupt"]
NoBlock == [size |-> 0, armed |-> 0, moved |-> FALSE, state |-> "none"]

Has(calls, e) == \E k \in DOMAIN calls : calls[k] = e

\* The heap after the calls `calls` were made on block p.
Logged(blks, p, calls) ==
  [b \in DOMAIN blks |->
     IF b = p /\ (Has(calls, EvFree) \/ Has(calls, EvDelete))
     THEN (IF blks[b].state = "live" THEN Freed ELSE Corrupt)
     ELSE blks[b]]

\* The block p names, as the heap holds it.
BlockAt(blks, p) == IF p \in DOMAIN blks THEN blks[p] ELSE NoBlock

\* ------------------------------------------------------ Count, begin, end
\* The address of block b (what get() returns); blocks are far apart.
AddrOf(b) == IF b = Null THEN Null ELSE b * SizeMod

\* Count(p): p.get_deleter().GetCount()
Count(hd) == hd.count

\* begin(p) advancing by sizeof(header_type) even when the header is empty.
beginPastHeader(l, hd) ==
  IF hd.ptr # Null THEN AddrOf(hd.ptr) + l.H ELSE Null

\* begin(p): the address advanced by the header, or null
begin(l, hd) ==
  IF hd.ptr # Null
  THEN AddrOf(hd.ptr) + (IF l.empty THEN 0 ELSE l.H)
  ELSE Null

\* end(p): result = begin(p); if (result) result += Count(p);
\* (arithmetic on iterated_type*, so in steps of its size)
end(l, hd) ==
  LET result == begin(l, hd)
  IN  IF result # Null THEN result + Count(hd) * l.E ELSE result

\* for (auto &x : p): the addresses visited from begin(p) up to end(p)
RECURSIVE RangeFor(_, _, _)
RangeFor(l, it, last) ==
  IF it = last THEN << >> ELSE <<it>> \o RangeFor(l, it + l.E, last)

\* ------------------------------------------------------------- allocation
\* operator new(size_t size, PackedArray_t, size_t enlarged): bytes obtained
OperatorNew(size, enlarged) == Max(size, enlarged)

\* A placement operator delete that releases nothing.
LeakingPlacementDelete == << >>

\* operator delete(void *p, PackedArray_t, size_t): called by the
\* new-expression when the constructor throws
PlacementDelete == <<EvDelete>>

\* AllocateCount: bytes = (is_empty_v<header_type> ? 0 : sizeof(header_type))
\*                        + count * sizeof(element_type)
CountBytes(l, count) ==
  ((IF l.empty THEN 0 ELSE l.H) + count * l.E) % SizeMod

DeadHandle == [alive |-> FALSE, ptr |-> Null, count |-> 0]

\* What the last operation was and did:
\*   op, h, g   the operation, the handle it acts on, the handle it moves from
\*   arg        the argument of AllocateBytes or AllocateCount
\*   outcome    of the new-expression
\*   src        the handle g as it was before a move
\*   blk        the block allocated, moved or handed to the deleter
\*   was        that block as the heap held it before the operation
\*   n          the count held by the deleter that was invoked
\*   calls      the calls the operation made on the block
\*   res        what Count, begin, end and the range-for returned
Observed(op, h, g, arg, outcome, src, blk, was, n, calls, res) ==
  [op |-> op, h |-> h, g |-> g, arg |-> arg, outcome |-> outcome, src |-> src,
   blk |-> blk, was |-> was, n |-> n, calls |-> calls, res |-> res]

Outcomes == {"ok", "ctor_throws", "bad_alloc"}

\* ------------------------------------------------------------------- Init
Idle == Observed("none", 0, 0, 0, "ok", DeadHandle, Null, NoBlock, 0, << >>, << >>)

Init ==
  /\ layout \in Layouts
  /\ build = "unchecked"
  /\ handles = [h \in Handles |-> DeadHandle]
  /\ blocks = << >>
  /\ obs = Idle

\* Instantiating Deleter<Type> evaluates the static_asserts.
Compile ==
  /\ build = "unchecked"
  /\ build' = IF StaticAsserts(layout) THEN "accepted" ELSE "rejected"
  /\ UNCHANGED <<layout, handles, blocks, obs>>

\* Ptr<Type> h;  the deleter is constructed from its default size 0
DefaultConstruct(h) ==
  /\ build = "accepted"
  /\ ~handles[h].alive
  /\ handles' = [handles EXCEPT ![h] =
                   [alive |-> TRUE, ptr |-> Null, count |-> DeleterCount(layout, 0)]]
  /\ obs' = Observed("DefaultConstruct", h, 0, 0, "ok", DeadHandle, Null, NoBlock,
                     0, << >>, << >>)
  /\ UNCHANGED <<layout, build, blocks>>

\* Ptr<Type> h = AllocateBytes<Type>(enlarged)(args...);
\* the lambda's body: the new-expression, then the Ptr from the pointer and
\* from the deleter's argument std::max(sizeof(Type), enlarged).
AllocateBytesCall(h, enlarged, outcome, op, arg) ==
  LET size  == OperatorNew(layout.mt, enlarged)
      armed == DeleterCount(layout, Max(layout.mt, enlarged))
      b     == Len(blocks) + 1
  IN
  \/ /\ outcome = "bad_alloc"              \* ::operator new throws
     /\ obs' = Observed(op, h, 0, arg, outcome, DeadHandle, Null, NoBlock, 0, << >>, << >>)
     /\ UNCHANGED <<handles, blocks>>
  \/ /\ outcome = "ctor_throws"            \* Type{ args... } throws
     /\ Len(blocks) < MaxBlocks
     /\ blocks' = Logged(Append(blocks, Live(size, 0)), b, PlacementDelete)
     /\ obs' = Observed(op, h, 0, arg, outcome, DeadHandle, b, Live(size, 0), 0,
                        <<EvNew, EvThrow>> \o PlacementDelete, << >>)
     /\ UNCHANGED handles
  \/ /\ outcome = "ok"
     /\ Len(blocks) < MaxBlocks
     /\ blocks' = Append(blocks, Live(size, armed))
     /\ handles' = [handles EXCEPT ![h] =
                      [alive |-> TRUE, ptr |-> b, count |-> armed]]
     /\ obs' = Observed(op, h, 0, arg, outcome, DeadHandle, b, Live(size, armed), 0,
                        <<EvNew, EvCtor>>, << >>)

AllocateBytes(h, enlarged, outcome) ==
  /\ build = "accepted"
  /\ ~handles[h].alive
  /\ AllocateBytesCall(h, enlarged, outcome, "AllocateBytes", enlarged)
  /\ UNCHANGED <<layout, build>>

\* Ptr<Type> h = AllocateCount<Type>(count)(args...);
AllocateCount(h, count, outcome) ==
  /\ build = "accepted"
  /\ ~handles[h].alive
  /\ AllocateBytesCall(h, CountBytes(layout, count), outcome, "AllocateCount", count)
  /\ UNCHANGED <<layout, build>>

\* The block p changes hands.
Moved(blks, p) ==
  [b \in DOMAIN blks |->
     IF b = p /\ blks[b].state = "live" THEN [blks[b] EXCEPT !.moved = TRUE]
     ELSE blks[b]]

\* unique_ptr(unique_ptr &&u): takes u.release() and u's deleter
MoveConstructed(src) == [alive |-> TRUE, ptr |-> src.ptr, count |-> src.count]

\* A release() that leaves the pointer in place.
ReleaseKeepsPointer(src) == src

\* u.release(): get() becomes null, the deleter stays
AfterRelease(src) == [src EXCEPT !.ptr = Null]

\* What unique_ptr does with the pointer it gives up:
\*   if (old_p) get_deleter()(old_p);
UniqueDelete(p, mCount) == IF p # Null THEN DeleterCall(p, mCount) ELSE << >>

\* Ptr<Type> h{ std::move(g) };
MoveConstruct(h, g) ==
  /\ build = "accepted"
  /\ h # g
  /\ ~handles[h].alive
  /\ handles[g].alive
  /\ handles' = [handles EXCEPT ![h] = MoveConstructed(handles[g]),
                                ![g] = AfterRelease(handles[g])]
  /\ blocks' = Moved(blocks, handles[g].ptr)
  /\ obs' = Observed("MoveConstruct", h, g, 0, "ok", handles[g],
                     handles[g].ptr, BlockAt(blocks, handles[g].ptr), 0, << >>, << >>)
  /\ UNCHANGED <<layout, build>>

\* Move assignment that takes the deleter before it resets.
MoveAssignedDeleterFirst(hs, h, g) ==
  LET p    == hs[g].ptr
      rel  == [hs EXCEPT ![g] = [hs[g] EXCEPT !.ptr = Null]]
      got  == [rel EXCEPT ![h].count = hs[g].count]
      old  == got[h].ptr
      fin  == [got EXCEPT ![h].ptr = p]
  IN  [handles |-> fin, old |-> old, n |-> got[h].count]

\* unique_ptr::operator=(unique_ptr &&u):
\*    reset(u.release()); get_deleter() = std::move(u.get_deleter());
\* For handles hs: the handles afterwards, the pointer reset() gives up and
\* the count of the deleter it is given to.
MoveAssigned(hs, h, g) ==
  LET p    == hs[g].ptr
      rel  == [hs EXCEPT ![g] = AfterRelease(hs[g])]    \* u.release()
      old  == rel[h].ptr                                \* reset(p): old_p
      set  == [rel EXCEPT ![h].ptr = p]
      fin  == [set EXCEPT ![h].count = hs[g].count]     \* the deleter, last
  IN  [handles |-> fin, old |-> old, n |-> rel[h].count]

\* h = std::move(g);
MoveAssign(h, g) ==
  /\ build = "accepted"
  /\ handles[h].alive
  /\ handles[g].alive
  /\ LET r == MoveAssigned(handles, h, g)
     IN  /\ handles' = r.handles
         /\ blocks' = Moved(Logged(blocks, r.old, UniqueDelete(r.old, r.n)),
                            handles[g].ptr)
         /\ obs' = Observed("MoveAssign", h, g, 0, "ok", handles[g], r.old,
                            BlockAt(blocks, r.old),
                            IF r.old # Null THEN r.n ELSE 0,
                            UniqueDelete(r.old, r.n), << >>)
  /\ UNCHANGED <<layout, build>>

\* h.reset();  old_p = get(); get() = nullptr; if (old_p) get_deleter()(old_p);
Reset(h) ==
  /\ build = "accepted"
  /\ handles[h].alive
  /\ handles' = [handles EXCEPT ![h].ptr = Null]
  /\ blocks' = Logged(blocks, handles[h].ptr,
                      UniqueDelete(handles[h].ptr, handles[h].count))
  /\ obs' = Observed("Reset", h, 0, 0, "ok", DeadHandle, handles[h].ptr,
                     BlockAt(blocks, handles[h].ptr),
                     IF handles[h].ptr # Null THEN handles[h].count ELSE 0,
                     UniqueDelete(handles[h].ptr, handles[h].count), << >>)
  /\ UNCHANGED <<layout, build>>

\* ~Ptr(): if (get() != nullptr) get_deleter()(get());
Destroy(h) ==
  /\ build = "accepted"
  /\ handles[h].alive
  /\ handles' = [handles EXCEPT ![h] = DeadHandle]
  /\ blocks' = Logged(blocks, handles[h].ptr,
                      UniqueDelete(handles[h].ptr, handles[h].count))
  /\ obs' = Observed("Destroy", h, 0, 0, "ok", DeadHandle, handles[h].ptr,
                     BlockAt(blocks, handles[h].ptr),
                     IF handles[h].ptr # Null THEN handles[h].count ELSE 0,
                     UniqueDelete(handles[h].ptr, handles[h].count), << >>)
  /\ UNCHANGED <<layout, build>>

\* h.get_deleter()(nullptr);
InvokeDeleterOnNull(h) ==
  /\ build = "accepted"
  /\ handles[h].alive
  /\ blocks' = Logged(blocks, Null, DeleterCall(Null, handles[h].count))
  /\ obs' = Observed("InvokeDeleterOnNull", h, 0, 0, "ok", DeadHandle, Null,
                     NoBlock, handles[h].count, DeleterCall(Null, handles[h].count), << >>)
  /\ UNCHANGED <<layout, build, handles>>

\* Count(h)
CountOf(h) ==
  /\ build = "accepted"
  /\ handles[h].alive
  /\ obs' = Observed("Count", h, 0, 0, "ok", DeadHandle, handles[h].ptr,
                     BlockAt(blocks, handles[h].ptr), 0, << >>, <<Count(handles[h])>>)
  /\ UNCHANGED <<layout, build, handles, blocks>>

\* for (auto &x : h) ...;   begin(h), end(h) and the elements visited
Iterate(h) ==
  /\ build = "accepted"
  /\ handles[h].alive
  /\ obs' = Observed("Iterate", h, 0, 0, "ok", DeadHandle, handles[h].ptr,
                     BlockAt(blocks, handles[h].ptr), 0, << >>,
                     <<begin(layout, handles[h]), end(layout, handles[h]),
                       RangeFor(layout, begin(layout, handles[h]), end(layout, handles[h]))>>)
  /\ UNCHANGED <<layout, build, handles, blocks>>

Next ==
  \/ Compile
  \/ \E h \in Handles : DefaultConstruct(h)
  \/ \E h \in Handles, n \in 0 .. MaxBytes, o \in Outcomes : AllocateBytes(h, n, o)
  \/ \E h \in Handles, c \in 0 .. MaxCount, o \in Outcomes : AllocateCount(h, c, o)
  \/ \E h \in Handles, g \in Handles : MoveConstruct(h, g)
  \/ \E h \in Handles, g \in Handles : MoveAssign(h, g)
  \/ \E h \in Handles : Reset(h)
  \/ \E h \in Handles : Destroy(h)
  \/ \E h \in Handles : InvokeDeleterOnNull(h)
  \/ \E h \in Handles : CountOf(h)
  \/ \E h \in Handles : Iterate(h)

Spec == Init /\ [][Next]_vars

\* ------------------------------------------------------------------ claims
Allocated == obs.op \in {"AllocateBytes", "AllocateCount"} /\ obs.outcome = "ok"

\* The last operation handed a block to the deleter.
TornDown == obs.op \in {"Destroy", "Reset", "MoveAssign"} /\ obs.blk # Null

\* Teardown as the specification words it: elements n-1 down to 0, then the
\* header, then the deallocation.
ExpectedTeardown(n) ==
  [k \in 1 .. n |-> EvElem(n - k)] \o <<EvHeader, EvFree>>

Occurrences(calls, e) == Cardinality({k \in DOMAIN calls : calls[k] = e})

\* The count a request for c elements should give.
RequestedCount(c) == IF layout.empty THEN c ELSE Max(c, 1)

\* C1: the handle AllocateCount<T>(count) returns has Count == count for an
\* empty header and Count == max(count, 1) for a non-empty one; and so has the
\* handle AllocateBytes<T> returns for header bytes + count * element size.
C1_CountIsRequested ==
  /\ (obs.op = "AllocateCount" /\ Allocated)
       => Count(handles[obs.h]) = RequestedCount(obs.arg)
  /\ (obs.op = "AllocateBytes" /\ Allocated)
       => \A c \in 0 .. MaxCount :
            obs.arg = (IF layout.empty THEN 0 ELSE layout.H) + c * layout.E
              => Count(handles[obs.h]) = RequestedCount(c)

\* C2: the teardown of a non-null block by a deleter holding count N is the
\* element destructor on N-1, ..., 0, then the header destructor once, then
\* one deallocation, and nothing else.
C2_TeardownOrder ==
  TornDown => obs.calls = ExpectedTeardown(obs.n)

C2_Witness ==
  TornDown /\ obs.n >= 2 /\ obs.calls = ExpectedTeardown(obs.n)

C4_ConstructionFailure ==
  /\ (obs.op \in {"AllocateBytes", "AllocateCount"} /\ obs.outcome = "ctor_throws")
       => /\ obs.calls = <<EvNew, EvThrow, EvDelete>>
          /\ blocks[obs.blk].state = "freed"
          /\ ~handles[obs.h].alive
          /\ \A h \in Handles : handles[h].ptr # obs.blk
  /\ (obs.op \in {"AllocateBytes", "AllocateCount"} /\ obs.outcome = "bad_alloc")
       => /\ obs.calls = << >>
          /\ obs.blk = Null
          /\ ~handles[obs.h].alive

C4_Witness ==
  /\ obs.op = "AllocateCount"
  /\ obs.outcome = "ctor_throws"
  /\ blocks[obs.blk].state = "freed"

\* C5: the deleter invoked on a null pointer, and the destruction or reset of
\* an empty owning pointer, call no element destructor, no header destructor
\* and no deallocation, whatever count the deleter holds.
C5_NullIsNoOp ==
  /\ obs.op = "InvokeDeleterOnNull" => obs.calls = << >>
  /\ (obs.op \in {"Destroy", "Reset"} /\ obs.blk = Null) => obs.calls = << >>
  /\ \A b \in DOMAIN blocks : blocks[b].state # "corrupt"

C5_Witness ==
  /\ obs.op = "InvokeDeleterOnNull"
  /\ handles[obs.h].ptr = Null
  /\ obs.n = (SizeMod - layout.H) \div layout.E
  /\ obs.calls = << >>

\* C6: a move transfers the block and its count in one step: the moved-from
\* handle is null and its destruction does nothing, the destination has the
\* source's count, and destroying the destination tears that block down in
\* full, once.
C6_MoveTransfers ==
  /\ (obs.op \in {"MoveConstruct", "MoveAssign"} /\ obs.h # obs.g)
       => /\ handles[obs.g].ptr = Null
          /\ handles[obs.h].ptr = obs.src.ptr
          /\ Count(handles[obs.h]) = obs.src.count
          /\ obs.src.ptr # Null => blocks[obs.src.ptr].state = "live"
  /\ (obs.op = "Destroy" /\ obs.blk = Null) => obs.calls = << >>
  /\ (TornDown /\ obs.was.moved)
       => /\ obs.was.state = "live"
          /\ obs.calls = ExpectedTeardown(obs.was.armed)
          /\ blocks[obs.blk].state = "freed"

C6_Witness ==
  /\ obs.op = "Destroy"
  /\ obs.blk # Null
  /\ obs.was.moved
  /\ obs.was.armed >= 1
  /\ blocks[obs.blk].state = "freed"

\* C7: every block has at most one owner, is torn down at most once and with
\* the count it was allocated with, and has been torn down once every handle
\* is destroyed.
Owners(b) == {h \in Handles : handles[h].alive /\ handles[h].ptr = b}

C7_SingleOwner ==
  /\ \A h \in Handles : handles[h].ptr \in {Null} \cup DOMAIN blocks
  /\ \A b \in DOMAIN blocks :
       /\ Cardinality(Owners(b)) <= 1
       /\ blocks[b].state # "corrupt"
       /\ Owners(b) # {} => blocks[b].state = "live"
  /\ TornDown => obs.was.state = "live" /\ obs.n = obs.was.armed
  /\ (\A h \in Handles : ~handles[h].alive)
       => \A b \in DOMAIN blocks : blocks[b].state = "freed"

C7_Witness ==
  /\ \A h \in Handles : ~handles[h].alive
  /\ Len(blocks) = MaxBlocks
  /\ \A b \in DOMAIN blocks : blocks[b].state = "freed"
  /\ TornDown /\ obs.n >= 1

\* C8: the layout check accepts a specialization only if the overlay has the
\* managed type's size and the element array is at offset 0 (empty header)
\* or sizeof(header_type) (otherwise).
C8_LayoutCheck ==
  build = "accepted" =>
    /\ layout.ovl = layout.mt
    /\ layout.off = (IF layout.empty THEN 0 ELSE layout.H)

\* C9: for a non-null handle begin() is the block address advanced by the
\* header (by 0 if it is empty), end() is begin() + N and the range visits the
\* N elements in forward order; for a null handle both are null and nothing
\* is visited.
C9_Iteration ==
  obs.op = "Iterate" =>
    LET hd == handles[obs.h]
        N  == hd.count
        first == hd.ptr * SizeMod + (IF layout.empty THEN 0 ELSE layout.H)
    IN  IF hd.ptr # Null
        THEN /\ obs.res[1] = first
             /\ obs.res[2] = first + N * layout.E
             /\ obs.res[3] = [k \in 1 .. N |-> first + (k - 1) * layout.E]
        ELSE obs.res = <<Null, Null, << >> >>

C9_Witness ==
  /\ obs.op = "Iterate"
  /\ handles[obs.h].ptr # Null
  /\ handles[obs.h].count >= 2
  /\ layout.empty
  /\ Len(obs.res[3]) = handles[obs.h].count

\* C10: the allocation has max(sizeof(T), totalBytes) bytes, the deleter is
\* constructed with that size, and the N element slots it destroys lie inside
\* the allocation: element offset + N * element size <= allocated size.
C10_TeardownInBounds ==
  Allocated =>
    LET bytes == IF obs.op = "AllocateCount"
                 THEN (IF layout.empty THEN 0 ELSE layout.H) + obs.arg * layout.E
                 ELSE obs.arg
        blk   == blocks[obs.blk]
    IN  /\ blk.size = Max(layout.mt, bytes)
        /\ blk.armed = Count(handles[obs.h])
        /\ layout.off + blk.armed * layout.E <= blk.size
====
